---------------------------- MODULE Spec2Model ----------------------------
(***************************************************************************)
(* A model of the PII detection-and-transformation engine of               *)
(* src/src/lib.rs: PiiField::try_from_str, From<&str> for PiiField and     *)
(* detect_and_transform.                                                   *)
(*                                                                         *)
(* A Rust &str / String is modelled as the sequence of its UTF-8 bytes     *)
(* (naturals 0..255), because the spans of detect_and_transform are byte   *)
(* offsets and slicing checks char boundaries.  Offsets are 0-based as in  *)
(* the source; the sequences are 1-based, so byte offset i is t[i + 1].    *)
(***************************************************************************)
EXTENDS Integers, Sequences, FiniteSets, TLC

VARIABLES
    src,            \* argument `src` of detect_and_transform
    fields,         \* argument `fields`
    policy,         \* argument `policy`
    pc,             \* position of the call: "collect", "loop", "done", "panicked" ("idle": no call)
    fi,             \* number of entries of `fields` the for loop of line 141 has consumed
    spans,          \* local `spans` (line 138), a sequence of <<kind, start, end>>
    si,             \* number of entries of `spans` the for loop of line 180 has consumed
    redacted,       \* local `redacted` (line 174)
    map,            \* local `map` (line 175), a sequence of <<kind, original, replacement>>
    type_counters,  \* local `type_counters` (line 178), a function kind -> count
    collected,      \* history: `spans` as it was before the sort of line 172
    ncalls,         \* history: number of calls started
    first,          \* history: arguments and outcome of the first completed call
    conv            \* the last identifier conversion made (PiiField conversions)

vars == <<src, fields, policy, pc, fi, spans, si, redacted, map, type_counters,
          collected, ncalls, first, conv>>

-----------------------------------------------------------------------------
(* Sequences of bytes *)

\* s[a..b) with 0-based byte offsets, as Rust's &s[a..b] once the range is valid.
Slice(s, a, b) == [i \in 1..(b - a) |-> s[a + i]]

\* str::repeat: s concatenated n times.
Repeat(s, n) == [i \in 1..(n * Len(s)) |-> s[((i - 1) % Len(s)) + 1]]

\* A UTF-8 continuation byte (10xxxxxx).
IsContinuation(b) == b >= 128 /\ b <= 191

\* str::is_char_boundary: 0, len, or the first byte of a code point.
IsCharBoundary(s, i) ==
    \/ i = 0
    \/ i = Len(s)
    \/ i > 0 /\ i < Len(s) /\ ~IsContinuation(s[i + 1])

\* Length in bytes of the UTF-8 encoding that starts with lead byte b.
Utf8Len(b) == IF b < 128 THEN 1 ELSE IF b < 224 THEN 2 ELSE IF b < 240 THEN 3 ELSE 4

\* The code point whose encoding starts at byte offset i of s (a char boundary, i < Len(s)).
CodePointAt(s, i) ==
    LET b == s[i + 1]
        c(k) == s[i + 1 + k] % 64
    IN  IF b < 128 THEN b
        ELSE IF b < 224 THEN (b % 32) * 64 + c(1)
        ELSE IF b < 240 THEN (b % 16) * 4096 + c(1) * 64 + c(2)
        ELSE (b % 8) * 262144 + c(1) * 4096 + c(2) * 64 + c(3)

RECURSIVE PrevBoundary(_, _)
\* The char boundary before byte offset i > 0 (i a char boundary).
PrevBoundary(s, i) ==
    IF i - 1 = 0 \/ ~IsContinuation(s[i]) THEN i - 1 ELSE PrevBoundary(s, i - 1)

-----------------------------------------------------------------------------
(* The character classes the four patterns use (regex crate, Unicode mode): *)
(* the tables of Unicode 16.0 that the regex crate holds.                   *)

IsAsciiDigit(c) == c >= 48 /\ c <= 57
IsAsciiAlpha(c) == (c >= 65 /\ c <= 90) \/ (c >= 97 /\ c <= 122)

\* c lies in one of the ranges <<lo, hi>> of the table.
InRanges(table, c) == \E k \in 1..Len(table) : table[k][1] <= c /\ c <= table[k][2]

\* General_Category = Decimal_Number above ASCII.
DecimalNumberRanges ==
  <<
    <<1632, 1641>>, <<1776, 1785>>, <<1984, 1993>>, <<2406, 2415>>, <<2534, 2543>>,
    <<2662, 2671>>, <<2790, 2799>>, <<2918, 2927>>, <<3046, 3055>>, <<3174, 3183>>,
    <<3302, 3311>>, <<3430, 3439>>, <<3558, 3567>>, <<3664, 3673>>, <<3792, 3801>>,
    <<3872, 3881>>, <<4160, 4169>>, <<4240, 4249>>, <<6112, 6121>>, <<6160, 6169>>,
    <<6470, 6479>>, <<6608, 6617>>, <<6784, 6793>>, <<6800, 6809>>, <<6992, 7001>>,
    <<7088, 7097>>, <<7232, 7241>>, <<7248, 7257>>, <<42528, 42537>>, <<43216, 43225>>,
    <<43264, 43273>>, <<43472, 43481>>, <<43504, 43513>>, <<43600, 43609>>, <<44016, 44025>>,
    <<65296, 65305>>, <<66720, 66729>>, <<68912, 68921>>, <<68928, 68937>>, <<69734, 69743>>,
    <<69872, 69881>>, <<69942, 69951>>, <<70096, 70105>>, <<70384, 70393>>, <<70736, 70745>>,
    <<70864, 70873>>, <<71248, 71257>>, <<71360, 71369>>, <<71376, 71395>>, <<71472, 71481>>,
    <<71904, 71913>>, <<72016, 72025>>, <<72688, 72697>>, <<72784, 72793>>, <<73040, 73049>>,
    <<73120, 73129>>, <<73552, 73561>>, <<90416, 90425>>, <<92768, 92777>>, <<92864, 92873>>,
    <<93008, 93017>>, <<93552, 93561>>, <<118000, 118009>>, <<120782, 120831>>,
    <<123200, 123209>>, <<123632, 123641>>, <<124144, 124153>>, <<124401, 124410>>,
    <<125264, 125273>>, <<130032, 130041>>
  >>

\* Alphabetic, Mark, Decimal_Number, Connector_Punctuation and Join_Control
\* above ASCII.
WordRanges ==
  <<
    <<170, 170>>, <<181, 181>>, <<186, 186>>, <<192, 214>>, <<216, 246>>, <<248, 705>>,
    <<710, 721>>, <<736, 740>>, <<748, 748>>, <<750, 750>>, <<768, 884>>, <<886, 887>>,
    <<890, 893>>, <<895, 895>>, <<902, 902>>, <<904, 906>>, <<908, 908>>, <<910, 929>>,
    <<931, 1013>>, <<1015, 1153>>, <<1155, 1327>>, <<1329, 1366>>, <<1369, 1369>>,
    <<1376, 1416>>, <<1425, 1469>>, <<1471, 1471>>, <<1473, 1474>>, <<1476, 1477>>,
    <<1479, 1479>>, <<1488, 1514>>, <<1519, 1522>>, <<1552, 1562>>, <<1568, 1641>>,
    <<1646, 1747>>, <<1749, 1756>>, <<1759, 1768>>, <<1770, 1788>>, <<1791, 1791>>,
    <<1808, 1866>>, <<1869, 1969>>, <<1984, 2037>>, <<2042, 2042>>, <<2045, 2045>>,
    <<2048, 2093>>, <<2112, 2139>>, <<2144, 2154>>, <<2160, 2183>>, <<2185, 2190>>,
    <<2199, 2273>>, <<2275, 2403>>, <<2406, 2415>>, <<2417, 2435>>, <<2437, 2444>>,
    <<2447, 2448>>, <<2451, 2472>>, <<2474, 2480>>, <<2482, 2482>>, <<2486, 2489>>,
    <<2492, 2500>>, <<2503, 2504>>, <<2507, 2510>>, <<2519, 2519>>, <<2524, 2525>>,
    <<2527, 2531>>, <<2534, 2545>>, <<2556, 2556>>, <<2558, 2558>>, <<2561, 2563>>,
    <<2565, 2570>>, <<2575, 2576>>, <<2579, 2600>>, <<2602, 2608>>, <<2610, 2611>>,
    <<2613, 2614>>, <<2616, 2617>>, <<2620, 2620>>, <<2622, 2626>>, <<2631, 2632>>,
    <<2635, 2637>>, <<2641, 2641>>, <<2649, 2652>>, <<2654, 2654>>, <<2662, 2677>>,
    <<2689, 2691>>, <<2693, 2701>>, <<2703, 2705>>, <<2707, 2728>>, <<2730, 2736>>,
    <<2738, 2739>>, <<2741, 2745>>, <<2748, 2757>>, <<2759, 2761>>, <<2763, 2765>>,
    <<2768, 2768>>, <<2784, 2787>>, <<2790, 2799>>, <<2809, 2815>>, <<2817, 2819>>,
    <<2821, 2828>>, <<2831, 2832>>, <<2835, 2856>>, <<2858, 2864>>, <<2866, 2867>>,
    <<2869, 2873>>, <<2876, 2884>>, <<2887, 2888>>, <<2891, 2893>>, <<2901, 2903>>,
    <<2908, 2909>>, <<2911, 2915>>, <<2918, 2927>>, <<2929, 2929>>, <<2946, 2947>>,
    <<2949, 2954>>, <<2958, 2960>>, <<2962, 2965>>, <<2969, 2970>>, <<2972, 2972>>,
    <<2974, 2975>>, <<2979, 2980>>, <<2984, 2986>>, <<2990, 3001>>, <<3006, 3010>>,
    <<3014, 3016>>, <<3018, 3021>>, <<3024, 3024>>, <<3031, 3031>>, <<3046, 3055>>,
    <<3072, 3084>>, <<3086, 3088>>, <<3090, 3112>>, <<3114, 3129>>, <<3132, 3140>>,
    <<3142, 3144>>, <<3146, 3149>>, <<3157, 3158>>, <<3160, 3162>>, <<3165, 3165>>,
    <<3168, 3171>>, <<3174, 3183>>, <<3200, 3203>>, <<3205, 3212>>, <<3214, 3216>>,
    <<3218, 3240>>, <<3242, 3251>>, <<3253, 3257>>, <<3260, 3268>>, <<3270, 3272>>,
    <<3274, 3277>>, <<3285, 3286>>, <<3293, 3294>>, <<3296, 3299>>, <<3302, 3311>>,
    <<3313, 3315>>, <<3328, 3340>>, <<3342, 3344>>, <<3346, 3396>>, <<3398, 3400>>,
    <<3402, 3406>>, <<3412, 3415>>, <<3423, 3427>>, <<3430, 3439>>, <<3450, 3455>>,
    <<3457, 3459>>, <<3461, 3478>>, <<3482, 3505>>, <<3507, 3515>>, <<3517, 3517>>,
    <<3520, 3526>>, <<3530, 3530>>, <<3535, 3540>>, <<3542, 3542>>, <<3544, 3551>>,
    <<3558, 3567>>, <<3570, 3571>>, <<3585, 3642>>, <<3648, 3662>>, <<3664, 3673>>,
    <<3713, 3714>>, <<3716, 3716>>, <<3718, 3722>>, <<3724, 3747>>, <<3749, 3749>>,
    <<3751, 3773>>, <<3776, 3780>>, <<3782, 3782>>, <<3784, 3790>>, <<3792, 3801>>,
    <<3804, 3807>>, <<3840, 3840>>, <<3864, 3865>>, <<3872, 3881>>, <<3893, 3893>>,
    <<3895, 3895>>, <<3897, 3897>>, <<3902, 3911>>, <<3913, 3948>>, <<3953, 3972>>,
    <<3974, 3991>>, <<3993, 4028>>, <<4038, 4038>>, <<4096, 4169>>, <<4176, 4253>>,
    <<4256, 4293>>, <<4295, 4295>>, <<4301, 4301>>, <<4304, 4346>>, <<4348, 4680>>,
    <<4682, 4685>>, <<4688, 4694>>, <<4696, 4696>>, <<4698, 4701>>, <<4704, 4744>>,
    <<4746, 4749>>, <<4752, 4784>>, <<4786, 4789>>, <<4792, 4798>>, <<4800, 4800>>,
    <<4802, 4805>>, <<4808, 4822>>, <<4824, 4880>>, <<4882, 4885>>, <<4888, 4954>>,
    <<4957, 4959>>, <<4992, 5007>>, <<5024, 5109>>, <<5112, 5117>>, <<5121, 5740>>,
    <<5743, 5759>>, <<5761, 5786>>, <<5792, 5866>>, <<5870, 5880>>, <<5888, 5909>>,
    <<5919, 5940>>, <<5952, 5971>>, <<5984, 5996>>, <<5998, 6000>>, <<6002, 6003>>,
    <<6016, 6099>>, <<6103, 6103>>, <<6108, 6109>>, <<6112, 6121>>, <<6155, 6157>>,
    <<6159, 6169>>, <<6176, 6264>>, <<6272, 6314>>, <<6320, 6389>>, <<6400, 6430>>,
    <<6432, 6443>>, <<6448, 6459>>, <<6470, 6509>>, <<6512, 6516>>, <<6528, 6571>>,
    <<6576, 6601>>, <<6608, 6617>>, <<6656, 6683>>, <<6688, 6750>>, <<6752, 6780>>,
    <<6783, 6793>>, <<6800, 6809>>, <<6823, 6823>>, <<6832, 6862>>, <<6912, 6988>>,
    <<6992, 7001>>, <<7019, 7027>>, <<7040, 7155>>, <<7168, 7223>>, <<7232, 7241>>,
    <<7245, 7293>>, <<7296, 7306>>, <<7312, 7354>>, <<7357, 7359>>, <<7376, 7378>>,
    <<7380, 7418>>, <<7424, 7957>>, <<7960, 7965>>, <<7968, 8005>>, <<8008, 8013>>,
    <<8016, 8023>>, <<8025, 8025>>, <<8027, 8027>>, <<8029, 8029>>, <<8031, 8061>>,
    <<8064, 8116>>, <<8118, 8124>>, <<8126, 8126>>, <<8130, 8132>>, <<8134, 8140>>,
    <<8144, 8147>>, <<8150, 8155>>, <<8160, 8172>>, <<8178, 8180>>, <<8182, 8188>>,
    <<8204, 8205>>, <<8255, 8256>>, <<8276, 8276>>, <<8305, 8305>>, <<8319, 8319>>,
    <<8336, 8348>>, <<8400, 8432>>, <<8450, 8450>>, <<8455, 8455>>, <<8458, 8467>>,
    <<8469, 8469>>, <<8473, 8477>>, <<8484, 8484>>, <<8486, 8486>>, <<8488, 8488>>,
    <<8490, 8493>>, <<8495, 8505>>, <<8508, 8511>>, <<8517, 8521>>, <<8526, 8526>>,
    <<8544, 8584>>, <<9398, 9449>>, <<11264, 11492>>, <<11499, 11507>>, <<11520, 11557>>,
    <<11559, 11559>>, <<11565, 11565>>, <<11568, 11623>>, <<11631, 11631>>, <<11647, 11670>>,
    <<11680, 11686>>, <<11688, 11694>>, <<11696, 11702>>, <<11704, 11710>>, <<11712, 11718>>,
    <<11720, 11726>>, <<11728, 11734>>, <<11736, 11742>>, <<11744, 11775>>, <<11823, 11823>>,
    <<12293, 12295>>, <<12321, 12335>>, <<12337, 12341>>, <<12344, 12348>>, <<12353, 12438>>,
    <<12441, 12442>>, <<12445, 12447>>, <<12449, 12538>>, <<12540, 12543>>, <<12549, 12591>>,
    <<12593, 12686>>, <<12704, 12735>>, <<12784, 12799>>, <<13312, 19903>>, <<19968, 42124>>,
    <<42192, 42237>>, <<42240, 42508>>, <<42512, 42539>>, <<42560, 42610>>, <<42612, 42621>>,
    <<42623, 42737>>, <<42775, 42783>>, <<42786, 42888>>, <<42891, 42957>>, <<42960, 42961>>,
    <<42963, 42963>>, <<42965, 42972>>, <<42994, 43047>>, <<43052, 43052>>, <<43072, 43123>>,
    <<43136, 43205>>, <<43216, 43225>>, <<43232, 43255>>, <<43259, 43259>>, <<43261, 43309>>,
    <<43312, 43347>>, <<43360, 43388>>, <<43392, 43456>>, <<43471, 43481>>, <<43488, 43518>>,
    <<43520, 43574>>, <<43584, 43597>>, <<43600, 43609>>, <<43616, 43638>>, <<43642, 43714>>,
    <<43739, 43741>>, <<43744, 43759>>, <<43762, 43766>>, <<43777, 43782>>, <<43785, 43790>>,
    <<43793, 43798>>, <<43808, 43814>>, <<43816, 43822>>, <<43824, 43866>>, <<43868, 43881>>,
    <<43888, 44010>>, <<44012, 44013>>, <<44016, 44025>>, <<44032, 55203>>, <<55216, 55238>>,
    <<55243, 55291>>, <<63744, 64109>>, <<64112, 64217>>, <<64256, 64262>>, <<64275, 64279>>,
    <<64285, 64296>>, <<64298, 64310>>, <<64312, 64316>>, <<64318, 64318>>, <<64320, 64321>>,
    <<64323, 64324>>, <<64326, 64433>>, <<64467, 64829>>, <<64848, 64911>>, <<64914, 64967>>,
    <<65008, 65019>>, <<65024, 65039>>, <<65056, 65071>>, <<65075, 65076>>, <<65101, 65103>>,
    <<65136, 65140>>, <<65142, 65276>>, <<65296, 65305>>, <<65313, 65338>>, <<65343, 65343>>,
    <<65345, 65370>>, <<65382, 65470>>, <<65474, 65479>>, <<65482, 65487>>, <<65490, 65495>>,
    <<65498, 65500>>, <<65536, 65547>>, <<65549, 65574>>, <<65576, 65594>>, <<65596, 65597>>,
    <<65599, 65613>>, <<65616, 65629>>, <<65664, 65786>>, <<65856, 65908>>, <<66045, 66045>>,
    <<66176, 66204>>, <<66208, 66256>>, <<66272, 66272>>, <<66304, 66335>>, <<66349, 66378>>,
    <<66384, 66426>>, <<66432, 66461>>, <<66464, 66499>>, <<66504, 66511>>, <<66513, 66517>>,
    <<66560, 66717>>, <<66720, 66729>>, <<66736, 66771>>, <<66776, 66811>>, <<66816, 66855>>,
    <<66864, 66915>>, <<66928, 66938>>, <<66940, 66954>>, <<66956, 66962>>, <<66964, 66965>>,
    <<66967, 66977>>, <<66979, 66993>>, <<66995, 67001>>, <<67003, 67004>>, <<67008, 67059>>,
    <<67072, 67382>>, <<67392, 67413>>, <<67424, 67431>>, <<67456, 67461>>, <<67463, 67504>>,
    <<67506, 67514>>, <<67584, 67589>>, <<67592, 67592>>, <<67594, 67637>>, <<67639, 67640>>,
    <<67644, 67644>>, <<67647, 67669>>, <<67680, 67702>>, <<67712, 67742>>, <<67808, 67826>>,
    <<67828, 67829>>, <<67840, 67861>>, <<67872, 67897>>, <<67968, 68023>>, <<68030, 68031>>,
    <<68096, 68099>>, <<68101, 68102>>, <<68108, 68115>>, <<68117, 68119>>, <<68121, 68149>>,
    <<68152, 68154>>, <<68159, 68159>>, <<68192, 68220>>, <<68224, 68252>>, <<68288, 68295>>,
    <<68297, 68326>>, <<68352, 68405>>, <<68416, 68437>>, <<68448, 68466>>, <<68480, 68497>>,
    <<68608, 68680>>, <<68736, 68786>>, <<68800, 68850>>, <<68864, 68903>>, <<68912, 68921>>,
    <<68928, 68965>>, <<68969, 68973>>, <<68975, 68997>>, <<69248, 69289>>, <<69291, 69292>>,
    <<69296, 69297>>, <<69314, 69316>>, <<69372, 69404>>, <<69415, 69415>>, <<69424, 69456>>,
    <<69488, 69509>>, <<69552, 69572>>, <<69600, 69622>>, <<69632, 69702>>, <<69734, 69749>>,
    <<69759, 69818>>, <<69826, 69826>>, <<69840, 69864>>, <<69872, 69881>>, <<69888, 69940>>,
    <<69942, 69951>>, <<69956, 69959>>, <<69968, 70003>>, <<70006, 70006>>, <<70016, 70084>>,
    <<70089, 70092>>, <<70094, 70106>>, <<70108, 70108>>, <<70144, 70161>>, <<70163, 70199>>,
    <<70206, 70209>>, <<70272, 70278>>, <<70280, 70280>>, <<70282, 70285>>, <<70287, 70301>>,
    <<70303, 70312>>, <<70320, 70378>>, <<70384, 70393>>, <<70400, 70403>>, <<70405, 70412>>,
    <<70415, 70416>>, <<70419, 70440>>, <<70442, 70448>>, <<70450, 70451>>, <<70453, 70457>>,
    <<70459, 70468>>, <<70471, 70472>>, <<70475, 70477>>, <<70480, 70480>>, <<70487, 70487>>,
    <<70493, 70499>>, <<70502, 70508>>, <<70512, 70516>>, <<70528, 70537>>, <<70539, 70539>>,
    <<70542, 70542>>, <<70544, 70581>>, <<70583, 70592>>, <<70594, 70594>>, <<70597, 70597>>,
    <<70599, 70602>>, <<70604, 70611>>, <<70625, 70626>>, <<70656, 70730>>, <<70736, 70745>>,
    <<70750, 70753>>, <<70784, 70853>>, <<70855, 70855>>, <<70864, 70873>>, <<71040, 71093>>,
    <<71096, 71104>>, <<71128, 71133>>, <<71168, 71232>>, <<71236, 71236>>, <<71248, 71257>>,
    <<71296, 71352>>, <<71360, 71369>>, <<71376, 71395>>, <<71424, 71450>>, <<71453, 71467>>,
    <<71472, 71481>>, <<71488, 71494>>, <<71680, 71738>>, <<71840, 71913>>, <<71935, 71942>>,
    <<71945, 71945>>, <<71948, 71955>>, <<71957, 71958>>, <<71960, 71989>>, <<71991, 71992>>,
    <<71995, 72003>>, <<72016, 72025>>, <<72096, 72103>>, <<72106, 72151>>, <<72154, 72161>>,
    <<72163, 72164>>, <<72192, 72254>>, <<72263, 72263>>, <<72272, 72345>>, <<72349, 72349>>,
    <<72368, 72440>>, <<72640, 72672>>, <<72688, 72697>>, <<72704, 72712>>, <<72714, 72758>>,
    <<72760, 72768>>, <<72784, 72793>>, <<72818, 72847>>, <<72850, 72871>>, <<72873, 72886>>,
    <<72960, 72966>>, <<72968, 72969>>, <<72971, 73014>>, <<73018, 73018>>, <<73020, 73021>>,
    <<73023, 73031>>, <<73040, 73049>>, <<73056, 73061>>, <<73063, 73064>>, <<73066, 73102>>,
    <<73104, 73105>>, <<73107, 73112>>, <<73120, 73129>>, <<73440, 73462>>, <<73472, 73488>>,
    <<73490, 73530>>, <<73534, 73538>>, <<73552, 73562>>, <<73648, 73648>>, <<73728, 74649>>,
    <<74752, 74862>>, <<74880, 75075>>, <<77712, 77808>>, <<77824, 78895>>, <<78912, 78933>>,
    <<78944, 82938>>, <<82944, 83526>>, <<90368, 90425>>, <<92160, 92728>>, <<92736, 92766>>,
    <<92768, 92777>>, <<92784, 92862>>, <<92864, 92873>>, <<92880, 92909>>, <<92912, 92916>>,
    <<92928, 92982>>, <<92992, 92995>>, <<93008, 93017>>, <<93027, 93047>>, <<93053, 93071>>,
    <<93504, 93548>>, <<93552, 93561>>, <<93760, 93823>>, <<93952, 94026>>, <<94031, 94087>>,
    <<94095, 94111>>, <<94176, 94177>>, <<94179, 94180>>, <<94192, 94193>>, <<94208, 100343>>,
    <<100352, 101589>>, <<101631, 101640>>, <<110576, 110579>>, <<110581, 110587>>,
    <<110589, 110590>>, <<110592, 110882>>, <<110898, 110898>>, <<110928, 110930>>,
    <<110933, 110933>>, <<110948, 110951>>, <<110960, 111355>>, <<113664, 113770>>,
    <<113776, 113788>>, <<113792, 113800>>, <<113808, 113817>>, <<113821, 113822>>,
    <<118000, 118009>>, <<118528, 118573>>, <<118576, 118598>>, <<119141, 119145>>,
    <<119149, 119154>>, <<119163, 119170>>, <<119173, 119179>>, <<119210, 119213>>,
    <<119362, 119364>>, <<119808, 119892>>, <<119894, 119964>>, <<119966, 119967>>,
    <<119970, 119970>>, <<119973, 119974>>, <<119977, 119980>>, <<119982, 119993>>,
    <<119995, 119995>>, <<119997, 120003>>, <<120005, 120069>>, <<120071, 120074>>,
    <<120077, 120084>>, <<120086, 120092>>, <<120094, 120121>>, <<120123, 120126>>,
    <<120128, 120132>>, <<120134, 120134>>, <<120138, 120144>>, <<120146, 120485>>,
    <<120488, 120512>>, <<120514, 120538>>, <<120540, 120570>>, <<120572, 120596>>,
    <<120598, 120628>>, <<120630, 120654>>, <<120656, 120686>>, <<120688, 120712>>,
    <<120714, 120744>>, <<120746, 120770>>, <<120772, 120779>>, <<120782, 120831>>,
    <<121344, 121398>>, <<121403, 121452>>, <<121461, 121461>>, <<121476, 121476>>,
    <<121499, 121503>>, <<121505, 121519>>, <<122624, 122654>>, <<122661, 122666>>,
    <<122880, 122886>>, <<122888, 122904>>, <<122907, 122913>>, <<122915, 122916>>,
    <<122918, 122922>>, <<122928, 122989>>, <<123023, 123023>>, <<123136, 123180>>,
    <<123184, 123197>>, <<123200, 123209>>, <<123214, 123214>>, <<123536, 123566>>,
    <<123584, 123641>>, <<124112, 124153>>, <<124368, 124410>>, <<124896, 124902>>,
    <<124904, 124907>>, <<124909, 124910>>, <<124912, 124926>>, <<124928, 125124>>,
    <<125136, 125142>>, <<125184, 125259>>, <<125264, 125273>>, <<126464, 126467>>,
    <<126469, 126495>>, <<126497, 126498>>, <<126500, 126500>>, <<126503, 126503>>,
    <<126505, 126514>>, <<126516, 126519>>, <<126521, 126521>>, <<126523, 126523>>,
    <<126530, 126530>>, <<126535, 126535>>, <<126537, 126537>>, <<126539, 126539>>,
    <<126541, 126543>>, <<126545, 126546>>, <<126548, 126548>>, <<126551, 126551>>,
    <<126553, 126553>>, <<126555, 126555>>, <<126557, 126557>>, <<126559, 126559>>,
    <<126561, 126562>>, <<126564, 126564>>, <<126567, 126570>>, <<126572, 126578>>,
    <<126580, 126583>>, <<126585, 126588>>, <<126590, 126590>>, <<126592, 126601>>,
    <<126603, 126619>>, <<126625, 126627>>, <<126629, 126633>>, <<126635, 126651>>,
    <<127280, 127305>>, <<127312, 127337>>, <<127344, 127369>>, <<130032, 130041>>,
    <<131072, 173791>>, <<173824, 177977>>, <<177984, 178205>>, <<178208, 183969>>,
    <<183984, 191456>>, <<191472, 192093>>, <<194560, 195101>>, <<196608, 201546>>,
    <<201552, 205743>>, <<917760, 917999>>
  >>

\* White_Space.
WhiteSpaceRanges ==
  <<
    <<9, 13>>, <<32, 32>>, <<133, 133>>, <<160, 160>>, <<5760, 5760>>, <<8192, 8202>>,
    <<8232, 8233>>, <<8239, 8239>>, <<8287, 8287>>, <<12288, 12288>>
  >>

\* \d
IsDigit(c) == IF c < 128 THEN IsAsciiDigit(c) ELSE InRanges(DecimalNumberRanges, c)

\* \w
IsWord(c) ==
    IF c < 128 THEN IsAsciiDigit(c) \/ IsAsciiAlpha(c) \/ c = 95
    ELSE InRanges(WordRanges, c)

\* \s
IsSpace(c) == InRanges(WhiteSpaceRanges, c)

\* Membership of code point c in the class named cls.
InClass(cls, c) ==
    CASE cls = "d"      -> IsDigit(c)                             \* \d
      [] cls = "w"      -> IsWord(c)                              \* \w
      [] cls = "local"  -> IsWord(c) \/ c \in {46, 43, 45}        \* [\w.+-]
      [] cls = "domain" -> IsWord(c) \/ c \in {46, 45}            \* [\w.-]
      [] cls = "sep"    -> c \in {45, 46} \/ IsSpace(c)           \* [-.\s]
      [] cls = "ccsep"  -> c = 45 \/ IsSpace(c)                   \* [-\s]
      [] OTHER          -> FALSE

-----------------------------------------------------------------------------
(* Regular expressions as data, and the leftmost-first matcher. *)

Lit(c)          == [t |-> "lit", c |-> c]
Cls(name)       == [t |-> "cls", c |-> name]
Rep(r, lo, hi)  == [t |-> "rep", r |-> r, lo |-> lo, hi |-> hi]   \* greedy {lo,hi}; hi = -1: no upper limit
Opt(r)          == Rep(r, 0, 1)
Cat(rs)         == [t |-> "cat", rs |-> rs]
WordB           == [t |-> "wb"]

\* \b at byte offset i: exactly one side is a word character.
AtWordBoundary(s, i) ==
    LET before == i > 0 /\ IsWord(CodePointAt(s, PrevBoundary(s, i)))
        after  == i < Len(s) /\ IsWord(CodePointAt(s, i))
    IN  before # after

RECURSIVE RunBounds(_, _, _, _)
\* The char boundaries i = b0 < b1 < ... of the longest run of characters of
\* class cls that starts at byte offset i of s, cut after `hi` characters
\* when hi >= 0.
RunBounds(s, cls, i, hi) ==
    IF hi # 0 /\ i < Len(s) /\ InClass(cls, CodePointAt(s, i))
    THEN <<i>> \o RunBounds(s, cls, i + Utf8Len(s[i + 1]), IF hi > 0 THEN hi - 1 ELSE hi)
    ELSE <<i>>

SetMax(S) == CHOOSE x \in S : \A y \in S : y <= x

RECURSIVE MatchFrom(_, _, _)
RECURSIVE LongestOf(_, _, _, _)
\* The match of `rest` after the longest prefix of the run, `good` being the
\* lengths of the prefixes that `rest` can follow; -1 when there is none.
LongestOf(s, rest, run, good) ==
    IF good = {} THEN -1 ELSE MatchFrom(s, rest, run[SetMax(good) + 1])

RECURSIVE Longest(_, _, _, _)
\* A repeated class: the longest prefix of the run, of at least lo
\* characters, that `rest` can follow.
Longest(s, rest, run, lo) ==
    LongestOf(s, rest, run,
              {c \in lo..(Len(run) - 1) : MatchFrom(s, rest, run[c + 1]) >= 0})

\* The match `more` found with one more repetition, else the match of `rest`
\* with none when the repetition may stop (lo = 0).
OrElse(more, s, rest, i, lo) ==
    IF more >= 0 THEN more
    ELSE IF lo = 0 THEN MatchFrom(s, rest, i)
    ELSE -1

\* The end offset of the preferred (leftmost-first: greedy, first alternative
\* first) match of the concatenation of the nodes of `todo` starting at byte
\* offset i of s, or -1 when there is none.
MatchFrom(s, todo, i) ==
    IF todo = <<>> THEN i
    ELSE
      LET n    == Head(todo)
          rest == Tail(todo)
      IN  CASE n.t = "lit" ->
                 IF i < Len(s) /\ CodePointAt(s, i) = n.c
                 THEN MatchFrom(s, rest, i + Utf8Len(s[i + 1])) ELSE -1
            [] n.t = "cls" ->
                 IF i < Len(s) /\ InClass(n.c, CodePointAt(s, i))
                 THEN MatchFrom(s, rest, i + Utf8Len(s[i + 1])) ELSE -1
            [] n.t = "wb" ->
                 IF AtWordBoundary(s, i) THEN MatchFrom(s, rest, i) ELSE -1
            [] n.t = "cat" ->
                 MatchFrom(s, n.rs \o rest, i)
            [] n.t = "rep" /\ n.r.t = "cls" ->
                 \* a repeated class: the longest admissible run the rest can follow
                 Longest(s, rest, RunBounds(s, n.r.c, i, n.hi), n.lo)
            [] n.t = "rep" /\ n.r.t # "cls" ->
                 IF n.hi = 0 THEN MatchFrom(s, rest, i)
                 ELSE
                   OrElse(MatchFrom(s, <<n.r, Rep(n.r, IF n.lo > 0 THEN n.lo - 1 ELSE 0,
                                                       IF n.hi > 0 THEN n.hi - 1 ELSE -1)>>
                                        \o rest, i),
                          s, rest, i, n.lo)

\* Every <<start, end>> such that the pattern's preferred match at start ends at end.
MatchesAt(s, re) ==
    {m \in {<<i, MatchFrom(s, <<re>>, i)>> : i \in {j \in 0..Len(s) : IsCharBoundary(s, j)}} :
        m[2] >= 0}

\* The match of `cands` that starts first.
Leftmost(cands) == CHOOSE x \in cands : \A y \in cands : x[1] <= y[1]

RECURSIVE FindIterFrom(_)
RECURSIVE FindIterAfter(_, _)
\* The successive leftmost matches among `cands` (none of them empty), each
\* search resuming at the end of the previous match.
FindIterFrom(cands) ==
    IF cands = {} THEN <<>> ELSE FindIterAfter(cands, Leftmost(cands))

\* The match m, and the matches found from its end on.
FindIterAfter(cands, m) == <<m>> \o FindIterFrom({x \in cands : x[1] >= m[2]})

\* Regex::find_iter: the successive non-overlapping matches, left to right.
FindIter(s, re) == FindIterFrom(MatchesAt(s, re))

-----------------------------------------------------------------------------
(* The pattern registry, lines 16-19. *)

\* (?i)[\w.+-]+@[\w.-]+\.\w{2,}   ((?i) changes none of these classes)
EMAIL ==
    Cat(<<Rep(Cls("local"), 1, -1), Lit(64), Rep(Cls("domain"), 1, -1),
          Lit(46), Rep(Cls("w"), 2, -1)>>)

\* \b(?:\+1[-.\s]?)?\(?\d{3}\)?[-.\s]?\d{3}[-.\s]?\d{4}\b
PHONE ==
    Cat(<<WordB, Opt(Cat(<<Lit(43), Lit(49), Opt(Cls("sep"))>>)),
          Opt(Lit(40)), Rep(Cls("d"), 3, 3), Opt(Lit(41)), Opt(Cls("sep")),
          Rep(Cls("d"), 3, 3), Opt(Cls("sep")), Rep(Cls("d"), 4, 4), WordB>>)

\* \b\d{3}[-]?\d{2}[-]?\d{4}\b
SSN ==
    Cat(<<WordB, Rep(Cls("d"), 3, 3), Opt(Lit(45)), Rep(Cls("d"), 2, 2),
          Opt(Lit(45)), Rep(Cls("d"), 4, 4), WordB>>)

\* \b(?:\d{4}[-\s]?){3}\d{4}\b
CREDIT_CARD ==
    Cat(<<WordB, Rep(Cat(<<Rep(Cls("d"), 4, 4), Opt(Cls("ccsep"))>>), 3, 3),
          Rep(Cls("d"), 4, 4), WordB>>)

-----------------------------------------------------------------------------
(* SHA-256 (sha2::Sha256, FIPS 180-4) on sequences of bytes, and hex::encode. *)
(* TLC's integers are 32-bit signed, so a 32-bit word x is kept as the pair  *)
(* <<x div 2^16, x mod 2^16>> of its 16-bit halves.                          *)

RECURSIVE BitAnd(_, _)
\* Bitwise and of two naturals.
BitAnd(a, b) ==
    IF a = 0 \/ b = 0 THEN 0
    ELSE (a % 2) * (b % 2) + 2 * BitAnd(a \div 2, b \div 2)

\* Bitwise and of two 4-bit values, tabulated.
And4 == [a \in 0..15 |-> [b \in 0..15 |-> BitAnd(a, b)]]

\* Bitwise and of two 16-bit values, four bits at a time.
And16(a, b) ==
      And4[a % 16][b % 16]
    + And4[(a \div 16) % 16][(b \div 16) % 16] * 16
    + And4[(a \div 256) % 16][(b \div 256) % 16] * 256
    + And4[a \div 4096][b \div 4096] * 4096

\* a xor b = a + b - 2 (a and b)
Xor16(a, b) == a + b - 2 * And16(a, b)

And32(x, y) == <<And16(x[1], y[1]), And16(x[2], y[2])>>
Xor32(x, y) == <<Xor16(x[1], y[1]), Xor16(x[2], y[2])>>
Not32(x)    == <<65535 - x[1], 65535 - x[2]>>

\* wrapping_add
Add32(x, y) ==
    LET lo == x[2] + y[2]
    IN  <<(x[1] + y[1] + lo \div 65536) % 65536, lo % 65536>>

Pow2 == <<2, 4, 8, 16, 32, 64, 128, 256, 512, 1024, 2048, 4096, 8192, 16384, 32768, 65536>>

\* x >> n, 0 < n < 16
Shr(x, n) ==
    <<x[1] \div Pow2[n], x[2] \div Pow2[n] + (x[1] % Pow2[n]) * Pow2[16 - n]>>

\* rotate_right by 0 < n < 16
Rotr16(x, n) ==
    <<x[1] \div Pow2[n] + (x[2] % Pow2[n]) * Pow2[16 - n],
      x[2] \div Pow2[n] + (x[1] % Pow2[n]) * Pow2[16 - n]>>

\* rotate_right by 0 < n < 32
Rotr(x, n) ==
    IF n < 16 THEN Rotr16(x, n)
    ELSE IF n = 16 THEN <<x[2], x[1]>>
    ELSE Rotr16(<<x[2], x[1]>>, n - 16)

Ch(x, y, z)  == Xor32(And32(x, y), And32(Not32(x), z))
Maj(x, y, z) == Xor32(Xor32(And32(x, y), And32(x, z)), And32(y, z))
BigSigma0(x) == Xor32(Xor32(Rotr(x, 2), Rotr(x, 13)), Rotr(x, 22))
BigSigma1(x) == Xor32(Xor32(Rotr(x, 6), Rotr(x, 11)), Rotr(x, 25))
SmallSigma0(x) == Xor32(Xor32(Rotr(x, 7), Rotr(x, 18)), Shr(x, 3))
SmallSigma1(x) == Xor32(Xor32(Rotr(x, 17), Rotr(x, 19)), Shr(x, 10))

\* The round constants.
Sha256K ==
    <<<<17034, 12184>>, <<28983, 17553>>, <<46528, 64463>>, <<59829, 56229>>,
      <<14678, 49755>>, <<23025, 4593>>, <<37439, 33444>>, <<43804, 24277>>,
      <<55303, 43672>>, <<4739, 23297>>, <<9265, 34238>>, <<21772, 32195>>,
      <<29374, 23924>>, <<32990, 45566>>, <<39900, 1703>>, <<49563, 61812>>,
      <<58523, 27073>>, <<61374, 18310>>, <<4033, 40390>>, <<9228, 41420>>,
      <<11753, 11375>>, <<19060, 33962>>, <<23728, 43484>>, <<30457, 35034>>,
      <<38974, 20818>>, <<43057, 50797>>, <<45059, 10184>>, <<48985, 32711>>,
      <<50912, 3059>>, <<54695, 37191>>, <<1738, 25425>>, <<5161, 10599>>,
      <<10167, 2693>>, <<11803, 8504>>, <<19756, 28156>>, <<21304, 3347>>,
      <<25866, 29524>>, <<30314, 2747>>, <<33218, 51502>>, <<37490, 11397>>,
      <<41663, 59553>>, <<43034, 26187>>, <<49739, 35696>>, <<51052, 20899>>,
      <<53650, 59417>>, <<54937, 1572>>, <<62478, 13701>>, <<4202, 41072>>,
      <<6564, 49430>>, <<7735, 27656>>, <<10056, 30540>>, <<13488, 48309>>,
      <<14620, 3251>>, <<20184, 43594>>, <<23452, 51791>>, <<26670, 28659>>,
      <<29839, 33518>>, <<30885, 25455>>, <<33992, 30740>>, <<36039, 520>>,
      <<37054, 65530>>, <<42064, 27883>>, <<48889, 41975>>, <<50801, 30962>>>>

\* The initial hash value.
Sha256H0 ==
    <<<<27145, 58983>>, <<47975, 44677>>, <<15470, 62322>>, <<42319, 62778>>,
      <<20750, 21119>>, <<39685, 26764>>, <<8067, 55723>>, <<23520, 52505>>>>

\* The message schedule grown by one word.
Ext1(w) ==
    LET t == Len(w) + 1
    IN  Append(w, Add32(Add32(SmallSigma1(w[t - 2]), w[t - 7]),
                        Add32(SmallSigma0(w[t - 15]), w[t - 16])))

RECURSIVE ExtendTo(_, _)
\* The message schedule grown to n words.
ExtendTo(w, n) == IF Len(w) >= n THEN w ELSE ExtendTo(Ext1(w), n)

\* The 64-word message schedule of a 64-byte block.
Schedule(block) ==
    LET w16 == <<<<block[1] * 256 + block[2], block[3] * 256 + block[4]>>,
                <<block[5] * 256 + block[6], block[7] * 256 + block[8]>>,
                <<block[9] * 256 + block[10], block[11] * 256 + block[12]>>,
                <<block[13] * 256 + block[14], block[15] * 256 + block[16]>>,
                <<block[17] * 256 + block[18], block[19] * 256 + block[20]>>,
                <<block[21] * 256 + block[22], block[23] * 256 + block[24]>>,
                <<block[25] * 256 + block[26], block[27] * 256 + block[28]>>,
                <<block[29] * 256 + block[30], block[31] * 256 + block[32]>>,
                <<block[33] * 256 + block[34], block[35] * 256 + block[36]>>,
                <<block[37] * 256 + block[38], block[39] * 256 + block[40]>>,
                <<block[41] * 256 + block[42], block[43] * 256 + block[44]>>,
                <<block[45] * 256 + block[46], block[47] * 256 + block[48]>>,
                <<block[49] * 256 + block[50], block[51] * 256 + block[52]>>,
                <<block[53] * 256 + block[54], block[55] * 256 + block[56]>>,
                <<block[57] * 256 + block[58], block[59] * 256 + block[60]>>,
                <<block[61] * 256 + block[62], block[63] * 256 + block[64]>>>>
    IN  ExtendTo(ExtendTo(ExtendTo(ExtendTo(w16, 28), 40), 52), 64)

\* A round of the compression function on the working variables
\* v = <<a, ..., h>>, given its two temporaries.
RoundWith(v, t1, t2) ==
    <<Add32(t1, t2), v[1], v[2], v[3], Add32(v[4], t1), v[5], v[6], v[7]>>

\* Round t of the compression function.
Round(v, w, t) ==
    RoundWith(v,
              Add32(Add32(Add32(v[8], BigSigma1(v[5])), Ch(v[5], v[6], v[7])),
                    Add32(Sha256K[t], w[t])),
              Add32(BigSigma0(v[1]), Maj(v[1], v[2], v[3])))

RECURSIVE Rounds(_, _, _, _)
\* Rounds t, ..., t + n - 1.
Rounds(v, w, t, n) ==
    IF Len(v) = 0 \/ n = 0 THEN v ELSE Rounds(Round(v, w, t), w, t + 1, n - 1)

\* The 64 rounds on the working variables h with the message schedule w.
AllRounds(h, w) ==
    Rounds(Rounds(Rounds(Rounds(Rounds(Rounds(Rounds(Rounds(
        h, w, 1, 8), w, 9, 8), w, 17, 8), w, 25, 8), w, 33, 8), w, 41, 8),
        w, 49, 8), w, 57, 8)

\* The word-wise sum of the hash value h and the working variables v.
AddWords(h, v) ==
    <<Add32(h[1], v[1]), Add32(h[2], v[2]), Add32(h[3], v[3]), Add32(h[4], v[4]),
      Add32(h[5], v[5]), Add32(h[6], v[6]), Add32(h[7], v[7]), Add32(h[8], v[8])>>

\* The compression function: the hash value h updated with one 64-byte block.
Compress(h, block) == AddWords(h, AllRounds(h, Schedule(block)))

\* The message followed by 0x80, zeros up to 56 mod 64, and its bit length
\* as a 64-bit big-endian integer.
Pad(m) ==
    LET zeros == (119 - Len(m)) % 64
        bits  == 8 * Len(m)
    IN  m \o <<128>> \o [i \in 1..zeros |-> 0]
          \o <<0, 0, 0, 0, (bits \div 16777216) % 256, (bits \div 65536) % 256,
               (bits \div 256) % 256, bits % 256>>

RECURSIVE CompressAll(_, _, _)
\* The hash value after blocks k, k + 1, ... of the padded message p.
CompressAll(h, p, k) ==
    IF Len(h) = 0 \/ 64 * k > Len(p) THEN h
    ELSE CompressAll(Compress(h, SubSeq(p, 64 * k - 63, 64 * k)), p, k + 1)

\* The four bytes of a word, most significant first.
WordBytes(x) == <<x[1] \div 256, x[1] % 256, x[2] \div 256, x[2] % 256>>

\* The 32 bytes of the hash value h.
DigestBytes(h) ==
    WordBytes(h[1]) \o WordBytes(h[2]) \o WordBytes(h[3]) \o WordBytes(h[4])
      \o WordBytes(h[5]) \o WordBytes(h[6]) \o WordBytes(h[7]) \o WordBytes(h[8])

\* Sha256::new, update(m), finalize: the 32 bytes of the digest.
Sha256(m) == DigestBytes(CompressAll(Sha256H0, Pad(m), 1))

\* The ASCII code of the lowercase hex digit of d < 16.
HexDigit(d) == IF d < 10 THEN 48 + d ELSE 87 + d

\* hex::encode: two lowercase hex digits per byte.
HexEncode(bs) ==
    [i \in 1..(2 * Len(bs)) |->
        LET b == bs[(i + 1) \div 2]
        IN  HexDigit(IF i % 2 = 1 THEN b \div 16 ELSE b % 16)]


-----------------------------------------------------------------------------
(* PiiField and its conversions, lines 47-94. *)

PiiFields == {"Email", "Phone", "Ssn", "CreditCard"}

\* The canonical identifier of each kind ("EMAIL", "PHONE", "SSN",
\* "CREDIT_CARD"): the patterns of the match of lines 75-79, and the labels
\* pushed at lines 146, 151, 156 and 161.
KindLabel(field) ==
    CASE field = "Email"      -> <<69, 77, 65, 73, 76>>
      [] field = "Phone"      -> <<80, 72, 79, 78, 69>>
      [] field = "Ssn"        -> <<83, 83, 78>>
      [] field = "CreditCard" -> <<67, 82, 69, 68, 73, 84, 95, 67, 65, 82, 68>>

\* The UTF-8 encoding of code point c.
Utf8(c) ==
    IF c < 128 THEN <<c>>
    ELSE IF c < 2048 THEN <<192 + (c \div 64), 128 + (c % 64)>>
    ELSE IF c < 65536
    THEN <<224 + (c \div 4096), 128 + ((c \div 64) % 64), 128 + (c % 64)>>
    ELSE <<240 + (c \div 262144), 128 + ((c \div 4096) % 64),
           128 + ((c \div 64) % 64), 128 + (c % 64)>>

\* The simple uppercase mappings above ASCII (Unicode 17.0) as runs
\* <<lo, hi, step, delta>>: lo, lo + step, ..., hi each map to itself + delta.
UppercaseRuns ==
  <<
    <<181, 181, 1, 743>>, <<224, 246, 1, -32>>, <<248, 254, 1, -32>>, <<255, 255, 1, 121>>,
    <<257, 303, 2, -1>>, <<305, 305, 1, -232>>, <<307, 311, 2, -1>>, <<314, 328, 2, -1>>,
    <<331, 375, 2, -1>>, <<378, 382, 2, -1>>, <<383, 383, 1, -300>>, <<384, 384, 1, 195>>,
    <<387, 389, 2, -1>>, <<392, 392, 1, -1>>, <<396, 396, 1, -1>>, <<402, 402, 1, -1>>,
    <<405, 405, 1, 97>>, <<409, 409, 1, -1>>, <<410, 410, 1, 163>>, <<411, 411, 1, 42561>>,
    <<414, 414, 1, 130>>, <<417, 421, 2, -1>>, <<424, 424, 1, -1>>, <<429, 429, 1, -1>>,
    <<432, 432, 1, -1>>, <<436, 438, 2, -1>>, <<441, 441, 1, -1>>, <<445, 445, 1, -1>>,
    <<447, 447, 1, 56>>, <<453, 453, 1, -1>>, <<454, 454, 1, -2>>, <<456, 456, 1, -1>>,
    <<457, 457, 1, -2>>, <<459, 459, 1, -1>>, <<460, 460, 1, -2>>, <<462, 476, 2, -1>>,
    <<477, 477, 1, -79>>, <<479, 495, 2, -1>>, <<498, 498, 1, -1>>, <<499, 499, 1, -2>>,
    <<501, 501, 1, -1>>, <<505, 543, 2, -1>>, <<547, 563, 2, -1>>, <<572, 572, 1, -1>>,
    <<575, 576, 1, 10815>>, <<578, 578, 1, -1>>, <<583, 591, 2, -1>>, <<592, 592, 1, 10783>>,
    <<593, 593, 1, 10780>>, <<594, 594, 1, 10782>>, <<595, 595, 1, -210>>,
    <<596, 596, 1, -206>>, <<598, 599, 1, -205>>, <<601, 601, 1, -202>>, <<603, 603, 1, -203>>,
    <<604, 604, 1, 42319>>, <<608, 608, 1, -205>>, <<609, 609, 1, 42315>>,
    <<611, 611, 1, -207>>, <<612, 612, 1, 42343>>, <<613, 613, 1, 42280>>,
    <<614, 614, 1, 42308>>, <<616, 616, 1, -209>>, <<617, 617, 1, -211>>,
    <<618, 618, 1, 42308>>, <<619, 619, 1, 10743>>, <<620, 620, 1, 42305>>,
    <<623, 623, 1, -211>>, <<625, 625, 1, 10749>>, <<626, 626, 1, -213>>,
    <<629, 629, 1, -214>>, <<637, 637, 1, 10727>>, <<640, 640, 1, -218>>,
    <<642, 642, 1, 42307>>, <<643, 643, 1, -218>>, <<647, 647, 1, 42282>>,
    <<648, 648, 1, -218>>, <<649, 649, 1, -69>>, <<650, 651, 1, -217>>, <<652, 652, 1, -71>>,
    <<658, 658, 1, -219>>, <<669, 669, 1, 42261>>, <<670, 670, 1, 42258>>, <<837, 837, 1, 84>>,
    <<881, 883, 2, -1>>, <<887, 887, 1, -1>>, <<891, 893, 1, 130>>, <<940, 940, 1, -38>>,
    <<941, 943, 1, -37>>, <<945, 961, 1, -32>>, <<962, 962, 1, -31>>, <<963, 971, 1, -32>>,
    <<972, 972, 1, -64>>, <<973, 974, 1, -63>>, <<976, 976, 1, -62>>, <<977, 977, 1, -57>>,
    <<981, 981, 1, -47>>, <<982, 982, 1, -54>>, <<983, 983, 1, -8>>, <<985, 1007, 2, -1>>,
    <<1008, 1008, 1, -86>>, <<1009, 1009, 1, -80>>, <<1010, 1010, 1, 7>>,
    <<1011, 1011, 1, -116>>, <<1013, 1013, 1, -96>>, <<1016, 1016, 1, -1>>,
    <<1019, 1019, 1, -1>>, <<1072, 1103, 1, -32>>, <<1104, 1119, 1, -80>>,
    <<1121, 1153, 2, -1>>, <<1163, 1215, 2, -1>>, <<1218, 1230, 2, -1>>,
    <<1231, 1231, 1, -15>>, <<1233, 1327, 2, -1>>, <<1377, 1414, 1, -48>>,
    <<4304, 4346, 1, 3008>>, <<4349, 4351, 1, 3008>>, <<5112, 5117, 1, -8>>,
    <<7296, 7296, 1, -6254>>, <<7297, 7297, 1, -6253>>, <<7298, 7298, 1, -6244>>,
    <<7299, 7300, 1, -6242>>, <<7301, 7301, 1, -6243>>, <<7302, 7302, 1, -6236>>,
    <<7303, 7303, 1, -6181>>, <<7304, 7304, 1, 35266>>, <<7306, 7306, 1, -1>>,
    <<7545, 7545, 1, 35332>>, <<7549, 7549, 1, 3814>>, <<7566, 7566, 1, 35384>>,
    <<7681, 7829, 2, -1>>, <<7835, 7835, 1, -59>>, <<7841, 7935, 2, -1>>, <<7936, 7943, 1, 8>>,
    <<7952, 7957, 1, 8>>, <<7968, 7975, 1, 8>>, <<7984, 7991, 1, 8>>, <<8000, 8005, 1, 8>>,
    <<8017, 8023, 2, 8>>, <<8032, 8039, 1, 8>>, <<8048, 8049, 1, 74>>, <<8050, 8053, 1, 86>>,
    <<8054, 8055, 1, 100>>, <<8056, 8057, 1, 128>>, <<8058, 8059, 1, 112>>,
    <<8060, 8061, 1, 126>>, <<8112, 8113, 1, 8>>, <<8126, 8126, 1, -7205>>,
    <<8144, 8145, 1, 8>>, <<8160, 8161, 1, 8>>, <<8165, 8165, 1, 7>>, <<8526, 8526, 1, -28>>,
    <<8560, 8575, 1, -16>>, <<8580, 8580, 1, -1>>, <<9424, 9449, 1, -26>>,
    <<11312, 11359, 1, -48>>, <<11361, 11361, 1, -1>>, <<11365, 11365, 1, -10795>>,
    <<11366, 11366, 1, -10792>>, <<11368, 11372, 2, -1>>, <<11379, 11379, 1, -1>>,
    <<11382, 11382, 1, -1>>, <<11393, 11491, 2, -1>>, <<11500, 11502, 2, -1>>,
    <<11507, 11507, 1, -1>>, <<11520, 11557, 1, -7264>>, <<11559, 11559, 1, -7264>>,
    <<11565, 11565, 1, -7264>>, <<42561, 42605, 2, -1>>, <<42625, 42651, 2, -1>>,
    <<42787, 42799, 2, -1>>, <<42803, 42863, 2, -1>>, <<42874, 42876, 2, -1>>,
    <<42879, 42887, 2, -1>>, <<42892, 42892, 1, -1>>, <<42897, 42899, 2, -1>>,
    <<42900, 42900, 1, 48>>, <<42903, 42921, 2, -1>>, <<42933, 42947, 2, -1>>,
    <<42952, 42954, 2, -1>>, <<42957, 42957, 1, -1>>, <<42959, 42959, 1, -1>>,
    <<42961, 42961, 1, -1>>, <<42963, 42965, 2, -1>>,
    <<42967, 42971, 2, -1>>, <<42998, 42998, 1, -1>>, <<43859, 43859, 1, -928>>,
    <<43888, 43967, 1, -38864>>, <<65345, 65370, 1, -32>>, <<66600, 66639, 1, -40>>,
    <<66776, 66811, 1, -40>>, <<66967, 67003, 2, -39>>, <<66968, 66977, 1, -39>>,
    <<66980, 66993, 1, -39>>, <<66996, 67001, 1, -39>>, <<67004, 67004, 1, -39>>,
    <<68800, 68850, 1, -64>>, <<68976, 68997, 1, -32>>, <<71872, 71903, 1, -32>>,
    <<93792, 93823, 1, -32>>, <<93883, 93907, 1, -27>>, <<125218, 125251, 1, -34>>
  >>

\* The uppercase mappings to more than one code point (SpecialCasing.txt,
\* the unconditional ones).
UppercaseMulti ==
  <<
    <<223, <<83, 83>>>>, <<329, <<700, 78>>>>, <<496, <<74, 780>>>>,
    <<912, <<921, 776, 769>>>>, <<944, <<933, 776, 769>>>>, <<1415, <<1333, 1362>>>>,
    <<7830, <<72, 817>>>>, <<7831, <<84, 776>>>>, <<7832, <<87, 778>>>>, <<7833, <<89, 778>>>>,
    <<7834, <<65, 702>>>>, <<8016, <<933, 787>>>>, <<8018, <<933, 787, 768>>>>,
    <<8020, <<933, 787, 769>>>>, <<8022, <<933, 787, 834>>>>, <<8064, <<7944, 921>>>>,
    <<8065, <<7945, 921>>>>, <<8066, <<7946, 921>>>>, <<8067, <<7947, 921>>>>,
    <<8068, <<7948, 921>>>>, <<8069, <<7949, 921>>>>, <<8070, <<7950, 921>>>>,
    <<8071, <<7951, 921>>>>, <<8072, <<7944, 921>>>>, <<8073, <<7945, 921>>>>,
    <<8074, <<7946, 921>>>>, <<8075, <<7947, 921>>>>, <<8076, <<7948, 921>>>>,
    <<8077, <<7949, 921>>>>, <<8078, <<7950, 921>>>>, <<8079, <<7951, 921>>>>,
    <<8080, <<7976, 921>>>>, <<8081, <<7977, 921>>>>, <<8082, <<7978, 921>>>>,
    <<8083, <<7979, 921>>>>, <<8084, <<7980, 921>>>>, <<8085, <<7981, 921>>>>,
    <<8086, <<7982, 921>>>>, <<8087, <<7983, 921>>>>, <<8088, <<7976, 921>>>>,
    <<8089, <<7977, 921>>>>, <<8090, <<7978, 921>>>>, <<8091, <<7979, 921>>>>,
    <<8092, <<7980, 921>>>>, <<8093, <<7981, 921>>>>, <<8094, <<7982, 921>>>>,
    <<8095, <<7983, 921>>>>, <<8096, <<8040, 921>>>>, <<8097, <<8041, 921>>>>,
    <<8098, <<8042, 921>>>>, <<8099, <<8043, 921>>>>, <<8100, <<8044, 921>>>>,
    <<8101, <<8045, 921>>>>, <<8102, <<8046, 921>>>>, <<8103, <<8047, 921>>>>,
    <<8104, <<8040, 921>>>>, <<8105, <<8041, 921>>>>, <<8106, <<8042, 921>>>>,
    <<8107, <<8043, 921>>>>, <<8108, <<8044, 921>>>>, <<8109, <<8045, 921>>>>,
    <<8110, <<8046, 921>>>>, <<8111, <<8047, 921>>>>, <<8114, <<8122, 921>>>>,
    <<8115, <<913, 921>>>>, <<8116, <<902, 921>>>>, <<8118, <<913, 834>>>>,
    <<8119, <<913, 834, 921>>>>, <<8124, <<913, 921>>>>, <<8130, <<8138, 921>>>>,
    <<8131, <<919, 921>>>>, <<8132, <<905, 921>>>>, <<8134, <<919, 834>>>>,
    <<8135, <<919, 834, 921>>>>, <<8140, <<919, 921>>>>, <<8146, <<921, 776, 768>>>>,
    <<8147, <<921, 776, 769>>>>, <<8150, <<921, 834>>>>, <<8151, <<921, 776, 834>>>>,
    <<8162, <<933, 776, 768>>>>, <<8163, <<933, 776, 769>>>>, <<8164, <<929, 787>>>>,
    <<8166, <<933, 834>>>>, <<8167, <<933, 776, 834>>>>, <<8178, <<8186, 921>>>>,
    <<8179, <<937, 921>>>>, <<8180, <<911, 921>>>>, <<8182, <<937, 834>>>>,
    <<8183, <<937, 834, 921>>>>, <<8188, <<937, 921>>>>, <<64256, <<70, 70>>>>,
    <<64257, <<70, 73>>>>, <<64258, <<70, 76>>>>, <<64259, <<70, 70, 73>>>>,
    <<64260, <<70, 70, 76>>>>, <<64261, <<83, 84>>>>, <<64262, <<83, 84>>>>,
    <<64275, <<1348, 1350>>>>, <<64276, <<1348, 1333>>>>, <<64277, <<1348, 1339>>>>,
    <<64278, <<1358, 1350>>>>, <<64279, <<1348, 1341>>>>
  >>

InRun(r, c) == r[1] <= c /\ c <= r[2] /\ (c - r[1]) % r[3] = 0

\* char::to_uppercase: the code points c maps to.
to_upper(c) ==
    IF c < 128 THEN (IF c >= 97 /\ c <= 122 THEN <<c - 32>> ELSE <<c>>)
    ELSE IF \E k \in 1..Len(UppercaseMulti) : UppercaseMulti[k][1] = c
    THEN UppercaseMulti[CHOOSE k \in 1..Len(UppercaseMulti) : UppercaseMulti[k][1] = c][2]
    ELSE IF \E k \in 1..Len(UppercaseRuns) : InRun(UppercaseRuns[k], c)
    THEN <<c + UppercaseRuns[CHOOSE k \in 1..Len(UppercaseRuns) : InRun(UppercaseRuns[k], c)][4]>>
    ELSE <<c>>

RECURSIVE Utf8All(_)
\* The UTF-8 encoding of a sequence of code points.
Utf8All(cs) == IF cs = <<>> THEN <<>> ELSE Utf8(Head(cs)) \o Utf8All(Tail(cs))

RECURSIVE to_uppercase(_)
\* str::to_uppercase on UTF-8 bytes: every character replaced by its
\* uppercase mapping.
to_uppercase(s) ==
    IF s = <<>> THEN <<>>
    ELSE Utf8All(to_upper(CodePointAt(s, 0)))
           \o to_uppercase(SubSeq(s, Utf8Len(s[1]) + 1, Len(s)))

\* PiiField::try_from_str, lines 74-82: Ok(field) or Err(InvalidFieldType(s)).
try_from_str(s) ==
    LET up == to_uppercase(s)
    IN  IF \E f \in PiiFields : up = KindLabel(f)
        THEN [ok |-> TRUE, field |-> CHOOSE f \in PiiFields : up = KindLabel(f)]
        ELSE [ok |-> FALSE, invalid |-> s]

\* impl From<&str> for PiiField, lines 85-94: the Err case becomes Email.
PiiField_from(s) ==
    LET r == try_from_str(s)
    IN  IF r.ok THEN r.field ELSE "Email"

-----------------------------------------------------------------------------
(* detect_and_transform, lines 133-208, as functions of its arguments. *)

\* The pattern of a kind, lines 144-163.
PatternOf(field) ==
    CASE field = "Email"      -> EMAIL
      [] field = "Phone"      -> PHONE
      [] field = "Ssn"        -> SSN
      [] field = "CreditCard" -> CREDIT_CARD

\* The spans <<label, start, end>> pushed for the matches ms of a kind.
SpansOf(label, ms) == [k \in 1..Len(ms) |-> <<label, ms[k][1], ms[k][2]>>]

\* A faulty variant, which property C2 excludes: an invalid identifier scanned
\* as EMAIL instead of skipped.
FieldSpansDefaulting(text, r) ==
    IF r.ok
    THEN SpansOf(KindLabel(r.field), FindIter(text, PatternOf(r.field)))
    ELSE SpansOf(KindLabel("Email"), FindIter(text, EMAIL))

\* The Ok and the Err arm of the match of line 143 on the conversion r.
FieldSpansOf(text, r) ==
    IF r.ok
    THEN SpansOf(KindLabel(r.field), FindIter(text, PatternOf(r.field)))
    ELSE <<>>

\* One iteration of the loop of line 141: the spans pushed for one entry of
\* `fields`; none for an invalid one (lines 164-167).
FieldSpans(text, field) == FieldSpansOf(text, try_from_str(field))

RECURSIVE CollectSpans(_, _)
\* The loop of lines 141-169.
CollectSpans(text, flds) ==
    IF flds = <<>> THEN <<>>
    ELSE FieldSpans(text, Head(flds)) \o CollectSpans(text, Tail(flds))

\* A faulty variant, which property C4 excludes: x put before the elements
\* of equal start, so that ties come out in reverse collection order.
InsertSpanBeforeEqual(sorted, x) ==
    LET n == Cardinality({k \in 1..Len(sorted) : sorted[k][2] > x[2]})
    IN  SubSeq(sorted, 1, n) \o <<x>> \o SubSeq(sorted, n + 1, Len(sorted))

\* x put into the sequence `sorted` (descending start) behind every element
\* whose start is not smaller than its own.
InsertSpan(sorted, x) ==
    LET n == Cardinality({k \in 1..Len(sorted) : sorted[k][2] >= x[2]})
    IN  SubSeq(sorted, 1, n) \o <<x>> \o SubSeq(sorted, n + 1, Len(sorted))

RECURSIVE sort_by_key_ascending(_)
\* A faulty variant, which property C10 excludes: the sort without Reverse,
\* the smallest start first.
sort_by_key_ascending(sp) ==
    IF sp = <<>> THEN <<>>
    ELSE LET x    == sp[1]
             rest == sort_by_key_ascending(Tail(sp))
             n    == Cardinality({k \in 1..Len(rest) : rest[k][2] < x[2]})
         IN  SubSeq(rest, 1, n) \o <<x>> \o SubSeq(rest, n + 1, Len(rest))

RECURSIVE sort_by_key_reverse(_)
\* spans.sort_by_key(|s| Reverse(s.1)), line 172: a stable sort, the largest
\* start first.
sort_by_key_reverse(sp) ==
    IF sp = <<>> THEN <<>>
    ELSE InsertSpan(sort_by_key_reverse(SubSeq(sp, 1, Len(sp) - 1)), sp[Len(sp)])

\* The filler literal of line 194 as the source file holds it: seven bytes,
\* the three characters U+00E2 U+2013 U+02C6.
Filler == <<195, 162, 226, 128, 147, 203, 134>>

RECURSIVE Decimal(_)
\* Display of a usize.
Decimal(n) == IF n < 10 THEN <<48 + n>> ELSE Decimal(n \div 10) \o <<48 + (n % 10)>>

\* Whether &s[a..b] is a valid slice: else the index panics (line 181).
SliceOk(s, a, b) ==
    a <= b /\ b <= Len(s) /\ IsCharBoundary(s, a) /\ IsCharBoundary(s, b)

\* String::replace_range(a..b, r), line 203.
replace_range(s, a, b, r) == SubSeq(s, 1, a) \o r \o SubSeq(s, b + 1, Len(s))

\* A faulty variant, which property C5 excludes: the working text started empty.
EmptyString(text) == <<>>

\* Line 174: src.to_string(), the working text as a copy of the input.
to_string(text) == text

\* A faulty variant, which property C9 excludes: the counters of the call
\* before kept.
StaleTypeCounters == type_counters

\* Line 178: the counters of a call start out empty.
NewTypeCounters == <<>>

\* A faulty variant, which property C3 excludes: the counter read before
\* the increment.
CounterBefore(counters, kind, pol) ==
    IF pol = "Anonymize"
    THEN (IF kind \in DOMAIN counters THEN counters[kind] ELSE 0)
    ELSE 0

\* Lines 184-191: the counter of the span's kind after
\* `*entry(kind).or_insert(0) += 1` under Anonymize, 0 under another policy.
CounterOf(counters, kind, pol) ==
    IF pol = "Anonymize"
    THEN (IF kind \in DOMAIN counters THEN counters[kind] ELSE 0) + 1
    ELSE 0

\* Lines 186-187: the counter map after the increment.
Bump(counters, kind, pol) ==
    IF pol = "Anonymize"
    THEN [k \in DOMAIN counters \cup {kind} |-> IF k = kind THEN CounterOf(counters, kind, pol) ELSE counters[k]]
    ELSE counters

\* PrivacyPolicy::Redact, line 194.
RedactReplacement(start, end) == Repeat(Filler, end - start)

\* PrivacyPolicy::Anonymize, line 195: format!("<{}_{}>", kind, counter).
AnonymizeReplacement(kind, counter) == <<60>> \o kind \o <<95>> \o Decimal(counter) \o <<62>>

\* A faulty variant, which property C8 excludes: the digest of the kind
\* followed by the original.
SaltedHashReplacement(kind, original) ==
    SubSeq(HexEncode(Sha256(kind \o original)), 1, 8)

\* PrivacyPolicy::Hash, lines 196-200.
HashReplacement(kind, original) == SubSeq(HexEncode(Sha256(original)), 1, 8)

\* Lines 193-201.
Replacement(pol, kind, start, end, original, counter) ==
    CASE pol = "Redact"    -> RedactReplacement(start, end)
      [] pol = "Anonymize" -> AnonymizeReplacement(kind, counter)
      [] pol = "Hash"      -> HashReplacement(kind, original)

\* Lines 202-204: the record pushed and the range replaced, with the
\* counters as lines 184-191 leave them.
Replaced(st, kind, start, end, pol, replacement) ==
    [redacted      |-> replace_range(st.redacted, start, end, replacement),
     map           |-> Append(st.map, <<kind, Slice(st.redacted, start, end), replacement>>),
     type_counters |-> Bump(st.type_counters, kind, pol),
     panicked      |-> FALSE]

\* One iteration of the loop of line 180 on the locals
\* st = [redacted, map, type_counters, panicked] for the span
\* sp = <<kind, start, end>>.
LoopStep(st, sp, pol) ==
    IF ~SliceOk(st.redacted, sp[2], sp[3])
    THEN [st EXCEPT !.panicked = TRUE]
    ELSE Replaced(st, sp[1], sp[2], sp[3], pol,
                  Replacement(pol, sp[1], sp[2], sp[3], Slice(st.redacted, sp[2], sp[3]),
                              CounterOf(st.type_counters, sp[1], pol)))

RECURSIVE RunLoop(_, _, _, _)
\* The loop of lines 180-205 from span k on.
RunLoop(st, sp, k, pol) ==
    IF st.panicked \/ k > Len(sp) THEN st
    ELSE RunLoop(LoopStep(st, sp[k], pol), sp, k + 1, pol)

\* What a call comes to: <<"ok", redacted, map>> for Ok(PiiResponse), or
\* <<"panic">>.
Outcome(st) == IF st.panicked THEN <<"panic">> ELSE <<"ok", st.redacted, st.map>>

\* The whole call.
detect_and_transform(text, flds, pol) ==
    LET sorted == sort_by_key_reverse(CollectSpans(text, flds))
        st0    == [redacted |-> to_string(text), map |-> <<>>,
                   type_counters |-> NewTypeCounters, panicked |-> FALSE]
    IN  Outcome(RunLoop(st0, sorted, 1, pol))


-----------------------------------------------------------------------------
(* The inputs the model draws from. *)

\* "Email me at a@b.com"
TextEmail ==
    <<69, 109, 97, 105, 108, 32, 109, 101, 32, 97, 116, 32, 97, 64,
      98, 46, 99, 111, 109>>

\* "SSN 123-45-6789 and 987-65-4321"
TextTwoSsn ==
    <<83, 83, 78, 32, 49, 50, 51, 45, 52, 53, 45, 54, 55, 56, 57, 32,
      97, 110, 100, 32, 57, 56, 55, 45, 54, 53, 45, 52, 51, 50, 49>>

\* "card 4111-1111-1111-1111"
TextCard ==
    <<99, 97, 114, 100, 32, 52, 49, 49, 49, 45, 49, 49, 49, 49, 45,
      49, 49, 49, 49, 45, 49, 49, 49, 49>>

\* "555-123-4567@b.com": the EMAIL match [0, 18) holds the PHONE match [0, 12)
TextPhoneEmail ==
    <<53, 53, 53, 45, 49, 50, 51, 45, 52, 53, 54, 55, 64, 98, 46, 99,
      111, 109>>

\* ""
TextEmpty == <<>>

\* "no pii here"
TextNoPii ==
    <<110, 111, 32, 112, 105, 105, 32, 104, 101, 114, 101>>

\* "a@b.com, a@b.com"
TextSameEmail ==
    <<97, 64, 98, 46, 99, 111, 109, 44, 32, 97, 64, 98, 46, 99, 111,
      109>>

\* "José: jose@x.io (800) 555-1212" (U+00E9 is the two bytes 195, 169)
TextAccent ==
    <<74, 111, 115, 195, 169, 58, 32, 106, 111, 115, 101, 64, 120, 46,
      105, 111, 32, 40, 56, 48, 48, 41, 32, 53, 53, 53, 45, 49, 50,
      49, 50>>

\* "123456789"
TextBareSsn ==
    <<49, 50, 51, 52, 53, 54, 55, 56, 57>>

\* "to me@example.com"
TextLongEmail ==
    <<116, 111, 32, 109, 101, 64, 101, 120, 97, 109, 112, 108, 101,
      46, 99, 111, 109>>

\* "+1 555-123-4567 x@y.org 123-45-6789"
TextMixed ==
    <<43, 49, 32, 53, 53, 53, 45, 49, 50, 51, 45, 52, 53, 54, 55, 32,
      120, 64, 121, 46, 111, 114, 103, 32, 49, 50, 51, 45, 52, 53, 45,
      54, 55, 56, 57>>

Texts ==
    {TextEmail, TextTwoSsn, TextCard, TextPhoneEmail, TextEmpty, TextNoPii,
     TextSameEmail, TextAccent, TextBareSsn, TextLongEmail, TextMixed}

IdEmail      == <<69, 77, 65, 73, 76>>                              \* "EMAIL"
IdPhoneMixed == <<80, 104, 111, 110, 101>>                          \* "Phone"
IdSsn        == <<83, 83, 78>>                                      \* "SSN"
IdCreditCard == <<67, 82, 69, 68, 73, 84, 95, 67, 65, 82, 68>>      \* "CREDIT_CARD"
IdBogus      == <<66, 79, 71, 85, 83>>                              \* "BOGUS"

\* The field identifiers a request may name.
FieldIds == {IdEmail, IdPhoneMixed, IdSsn, IdCreditCard, IdBogus}

\* The longest `fields` list of a request.
MaxFields == 2

SeqsUpTo(S, n) == UNION {[1..k -> S] : k \in 0..n}

FieldLists == SeqsUpTo(FieldIds, MaxFields)

Policies == {"Redact", "Anonymize", "Hash"}

\* The requests of the specification of repeated calls.
CallTexts == {TextEmail, TextTwoSsn, TextSameEmail}
CallFieldLists == {<<IdSsn>>, <<IdEmail, IdSsn>>}

\* The number of calls the specification of repeated calls makes.
MaxCalls == 3

\* The identifiers the conversions are applied to: the ones above, and every
\* string of at most MaxIdLen characters of "SsNnx".
MaxIdLen == 3
Identifiers == FieldIds \cup SeqsUpTo({83, 115, 78, 110, 120}, MaxIdLen)

-----------------------------------------------------------------------------
(* The state machine. *)

None == <<>>

\* The arguments and the outcome of the call the state is in.
Args == <<src, fields, policy>>
Locals == [redacted |-> redacted, map |-> map, type_counters |-> type_counters,
           panicked |-> pc = "panicked"]

\* Entry of detect_and_transform, lines 133-138.
Enter(texts, lists) ==
    /\ src \in texts
    /\ fields \in lists
    /\ policy \in Policies
    /\ pc = "collect"
    /\ fi = 0
    /\ spans = <<>>
    /\ si = 0
    /\ redacted = <<>>
    /\ map = <<>>
    /\ collected = <<>>

Init ==
    /\ Enter(Texts, FieldLists)
    /\ type_counters = <<>>
    /\ ncalls = 1
    /\ first = None
    /\ conv = None

\* One iteration of the loop of lines 141-169.
CollectField ==
    /\ pc = "collect"
    /\ fi < Len(fields)
    /\ spans' = spans \o FieldSpans(src, fields[fi + 1])
    /\ fi' = fi + 1
    /\ UNCHANGED <<src, fields, policy, pc, si, redacted, map, type_counters,
                   collected, ncalls, first, conv>>

\* Lines 171-178: the sort, and the locals of the replacement loop.
SortSpans ==
    /\ pc = "collect"
    /\ fi = Len(fields)
    /\ collected' = spans
    /\ spans' = sort_by_key_reverse(spans)
    /\ redacted' = to_string(src)
    /\ map' = <<>>
    /\ type_counters' = NewTypeCounters
    /\ si' = 0
    /\ pc' = "loop"
    /\ UNCHANGED <<src, fields, policy, fi, ncalls, first, conv>>

\* What `first` becomes when the call ends with outcome o.
Remember(o) == IF first = None THEN [args |-> Args, outcome |-> o] ELSE first

\* One iteration of the loop of lines 180-205; the slice of line 181 panics
\* on a range that is out of bounds or off a char boundary.
Replace ==
    /\ pc = "loop"
    /\ si < Len(spans)
    /\ \E st \in {LoopStep(Locals, spans[si + 1], policy)} :
           IF st.panicked
           THEN /\ pc' = "panicked"
                /\ first' = Remember(<<"panic">>)
                /\ UNCHANGED <<si, redacted, map, type_counters>>
           ELSE /\ redacted' = st.redacted
                /\ map' = st.map
                /\ type_counters' = st.type_counters
                /\ si' = si + 1
                /\ UNCHANGED <<pc, first>>
    /\ UNCHANGED <<src, fields, policy, fi, spans, collected, ncalls, conv>>

\* Line 207: Ok(PiiResponse { redacted, map }).
Return ==
    /\ pc = "loop"
    /\ si = Len(spans)
    /\ pc' = "done"
    /\ first' = Remember(<<"ok", redacted, map>>)
    /\ UNCHANGED <<src, fields, policy, fi, spans, si, redacted, map,
                   type_counters, collected, ncalls, conv>>

Next == CollectField \/ SortSpans \/ Replace \/ Return

Spec == Init /\ [][Next]_vars

\* Another call after one that returned.  Nothing of the returned call is
\* read again; type_counters keeps its value until line 178 sets it.
NextCall ==
    /\ pc = "done"
    /\ ncalls < MaxCalls
    /\ ncalls' = ncalls + 1
    /\ src' \in CallTexts
    /\ fields' \in CallFieldLists
    /\ policy' \in Policies
    /\ pc' = "collect"
    /\ fi' = 0
    /\ spans' = <<>>
    /\ si' = 0
    /\ redacted' = <<>>
    /\ map' = <<>>
    /\ collected' = <<>>
    /\ UNCHANGED <<type_counters, first, conv>>

InitCalls ==
    /\ Enter(CallTexts, CallFieldLists)
    /\ type_counters = <<>>
    /\ ncalls = 1
    /\ first = None
    /\ conv = None

NextCalls == CollectField \/ SortSpans \/ Replace \/ Return \/ NextCall

SpecCalls == InitCalls /\ [][NextCalls]_vars

\* A conversion of an identifier by both conversions of PiiField.
Convert ==
    /\ \E id \in Identifiers :
          conv' = [id |-> id, try |-> try_from_str(id), from |-> PiiField_from(id)]
    /\ UNCHANGED <<src, fields, policy, pc, fi, spans, si, redacted, map,
                   type_counters, collected, ncalls, first>>

InitConv ==
    /\ src = <<>> /\ fields = <<>> /\ policy = "Redact" /\ pc = "idle"
    /\ fi = 0 /\ spans = <<>> /\ si = 0 /\ redacted = <<>> /\ map = <<>>
    /\ collected = <<>> /\ type_counters = <<>> /\ ncalls = 0
    /\ first = None /\ conv = None

NextConv == Convert

SpecConv == InitConv /\ [][NextConv]_vars


-----------------------------------------------------------------------------
(* The properties. *)

\* The call has reached or left the replacement loop.
Running == pc \in {"loop", "done", "panicked"}

\* The call has ended.
Ended == pc \in {"done", "panicked"}

\* What the call has come to once it has ended.
StateOutcome == IF pc = "panicked" THEN <<"panic">> ELSE <<"ok", redacted, map>>

AsciiUpper(c) == IF c >= 97 /\ c <= 122 THEN c - 32 ELSE c

\* Equality of two identifiers up to the case of their ASCII letters.
EqIgnoreAsciiCase(a, b) ==
    Len(a) = Len(b) /\ \A i \in 1..Len(a) : AsciiUpper(a[i]) = AsciiUpper(b[i])

IsRecognized(id) == \E f \in PiiFields : EqIgnoreAsciiCase(id, KindLabel(f))

\* A field list without its unrecognized identifiers.
Recognized(flds) == SelectSeq(flds, IsRecognized)

Range(f) == {f[i] : i \in DOMAIN f}

\* C1: a call never fails: whatever the text, the field list (one that names
\* a kind twice, or kinds whose matches overlap, included) and the policy,
\* no slice of the working text at a span's [start, end) is out of bounds or
\* off a character boundary, and the loop runs to completion.
C1_NeverFails == pc # "panicked"

\* The EMAIL match [0, 18) of "555-123-4567@b.com" has become 8 hex
\* characters, and the slice [0, 12) of the PHONE match is out of bounds.
C1_Panicked ==
    /\ pc = "panicked"
    /\ src = TextPhoneEmail
    /\ fields = <<IdEmail, IdPhoneMixed>>
    /\ policy = "Hash"
    /\ Len(map) = 1
    /\ Len(redacted) = 8

\* C2: unrecognized identifiers neither abort a call nor change what it
\* comes to: the call ends as the call on the same text and policy does with
\* the unrecognized identifiers taken out of the field list.
C2_UnknownIdsIgnored ==
    Ended => StateOutcome = detect_and_transform(src, Recognized(fields), policy)

C2_Witness ==
    /\ pc = "done"
    /\ src = TextEmail
    /\ fields = <<IdEmail, IdBogus>>
    /\ Len(map) = 1

\* The number of records of the kind of record k among the records 1..k.
NthOfKind(k) == Cardinality({j \in 1..k : map[j][1] = map[k][1]})

\* "SSN <SSN_2> and <SSN_1>"
TwoSsnAnonymized ==
    <<83, 83, 78, 32, 60, 83, 83, 78, 95, 50, 62, 32, 97, 110, 100, 32,
      60, 83, 83, 78, 95, 49, 62>>

\* C3: under Anonymize, the replacement of the n-th processed span of a kind
\* is "<KIND_n>": the counters of a kind run 1, 2, ... in processing order
\* (rightmost start first), each kind on its own; "SSN 123-45-6789 and
\* 987-65-4321" becomes "SSN <SSN_2> and <SSN_1>".
C3_AnonymizeCounters ==
    (Running /\ policy = "Anonymize") =>
        /\ \A k \in 1..Len(map) :
               /\ NthOfKind(k) < 10
               /\ map[k][3] = <<60>> \o map[k][1] \o <<95, 48 + NthOfKind(k), 62>>
        /\ (pc = "done" /\ src = TextTwoSsn /\ fields = <<IdSsn>>) =>
               redacted = TwoSsnAnonymized

C3_Witness ==
    /\ pc = "done"
    /\ policy = "Anonymize"
    /\ src = TextMixed
    /\ fields = <<IdSsn, IdPhoneMixed>>
    /\ Len(map) = 2
    /\ map[1][1] # map[2][1]

\* The number of collected spans that go before collected span i: those of a
\* larger start, and those of the same start collected earlier.
Rank(i) ==
    Cardinality({j \in 1..Len(collected) :
                    \/ collected[j][2] > collected[i][2]
                    \/ collected[j][2] = collected[i][2] /\ j < i})

\* C4: the records are in the order of the substitutions, which is the
\* order of descending span start, the spans of equal start in the order
\* they were collected in.
C4_RecordOrder ==
    Running =>
        /\ Len(spans) = Len(collected)
        /\ \A i \in 1..Len(collected) : spans[Rank(i) + 1] = collected[i]
        /\ \A k \in 1..(Len(spans) - 1) : spans[k][2] >= spans[k + 1][2]
        /\ Len(map) = si
        /\ \A k \in 1..Len(map) : map[k][1] = spans[k][1]

C4_Witness ==
    /\ pc = "done"
    /\ src = TextPhoneEmail
    /\ fields = <<IdEmail, IdPhoneMixed>>
    /\ Len(map) = 2
    /\ spans[1][2] = spans[2][2]
    /\ map[1][1] = KindLabel("Email")
    /\ map[2][1] = KindLabel("Phone")

\* The request has no match: the text holds nothing the patterns match, or
\* no identifier of the list is recognized, or the scan found nothing.
ZeroMatches ==
    \/ src \in {TextEmpty, TextNoPii}
    \/ Recognized(fields) = <<>>
    \/ collected = <<>>

\* C5: a call on a text without a match of a requested kind leaves the text
\* as it is and returns no record, under every policy.
C5_ZeroMatches ==
    (Running /\ ZeroMatches) =>
        /\ pc # "panicked"
        /\ redacted = src
        /\ map = <<>>

C5_Witness ==
    /\ pc = "done"
    /\ src = TextEmail
    /\ fields = <<IdBogus, IdBogus>>
    /\ policy = "Hash"

\* C6: a conversion of an identifier yields a kind only if the identifier
\* is, up to case, the canonical identifier of that kind: there is no
\* default kind.
C6_NoDefaultKind ==
    conv # None =>
        /\ conv.try.ok => EqIgnoreAsciiCase(conv.id, KindLabel(conv.try.field))
        /\ EqIgnoreAsciiCase(conv.id, KindLabel(conv.from))

\* From<&str> has made Email of "BOGUS", which try_from_str rejects.
C6_BogusIsEmail ==
    /\ conv # None
    /\ conv.id = IdBogus
    /\ ~conv.try.ok
    /\ conv.from = "Email"

\* The number of characters of the UTF-8 string r.
CharCount(r) == Cardinality({i \in 1..Len(r) : ~IsContinuation(r[i])})

\* r is one character repeated n times.
OneCharRepeated(r, n) ==
    /\ CharCount(r) = n
    /\ n > 0 => \A i \in 1..Len(r) : r[i] = r[((i - 1) % Utf8Len(r[1])) + 1]

\* C7: under Redact, the replacement of a record is the filler character
\* repeated end - start times and nothing else, end - start being the byte
\* length of the span and of the record's original; "Email me at a@b.com"
\* gives the record ("EMAIL", "a@b.com", the filler character 7 times).
C7_RedactFiller ==
    (Running /\ policy = "Redact") =>
        \A k \in 1..Len(map) :
            /\ Len(map[k][2]) = spans[k][3] - spans[k][2]
            /\ OneCharRepeated(map[k][3], spans[k][3] - spans[k][2])

\* The record of "a@b.com" carries 21 characters in 49 bytes: the literal of
\* line 194, three characters long, 7 times.
C7_ThreeCharacters ==
    /\ pc = "done"
    /\ policy = "Redact"
    /\ src = TextEmail
    /\ fields = <<IdEmail>>
    /\ Len(map) = 1
    /\ map[1][2] = <<97, 64, 98, 46, 99, 111, 109>>
    /\ CharCount(map[1][3]) = 21
    /\ Len(map[1][3]) = 49

IsHexChar(c) == (c >= 48 /\ c <= 57) \/ (c >= 97 /\ c <= 102)

\* The first 8 hex characters of the SHA-256 digests of "a@b.com",
\* "123-45-6789" and "987-65-4321": fb98d44a, 01a54629, ecdbc061.
KnownDigest(original) ==
    CASE original = <<97, 64, 98, 46, 99, 111, 109>>
           -> <<102, 98, 57, 56, 100, 52, 52, 97>>
      [] original = <<49, 50, 51, 45, 52, 53, 45, 54, 55, 56, 57>>
           -> <<48, 49, 97, 53, 52, 54, 50, 57>>
      [] original = <<57, 56, 55, 45, 54, 53, 45, 52, 51, 50, 49>>
           -> <<101, 99, 100, 98, 99, 48, 54, 49>>
      [] OTHER -> <<>>

\* The records of the first call, when it ran under Hash.
FirstHashRecords ==
    IF first # None /\ first.args[3] = "Hash" /\ first.outcome[1] = "ok"
    THEN Range(first.outcome[3]) ELSE {}

\* The records made under Hash: those of the call the state is in, and
\* those of the first call.
HashRecords == (IF policy = "Hash" THEN Range(map) ELSE {}) \cup FirstHashRecords

\* C8: under Hash, the replacement of a record is the first 8 hex characters
\* of the SHA-256 digest of the record's original: 8 hex characters that
\* depend on the bytes of the original alone, so that records of equal
\* originals have equal replacements within a call and across calls.
C8_HashOfOriginal ==
    \A r \in HashRecords :
        /\ Len(r[3]) = 8
        /\ \A i \in 1..Len(r[3]) : IsHexChar(r[3][i])
        /\ KnownDigest(r[2]) # <<>>
        /\ r[3] = KnownDigest(r[2])
        /\ \A q \in HashRecords : q[2] = r[2] => q[3] = r[3]

C8_Witness ==
    /\ pc = "done"
    /\ ncalls > 1
    /\ policy = "Hash"
    /\ src = TextSameEmail
    /\ Len(map) = 2
    /\ map[1][2] = map[2][2]
    /\ first.args[1] = TextEmail
    /\ \E q \in FirstHashRecords : q[2] = map[1][2]

\* C9: a call is a function of its arguments, whatever calls ran before it:
\* a call with the arguments of the first call ends as the first call did,
\* and under Anonymize the first record of every call carries the counter 1.
C9_NoStateBetweenCalls ==
    /\ (Ended /\ first # None /\ Args = first.args) => StateOutcome = first.outcome
    /\ (Running /\ policy = "Anonymize" /\ Len(map) >= 1) =>
           map[1][3] = <<60>> \o map[1][1] \o <<95, 49, 62>>

C9_Witness ==
    /\ pc = "done"
    /\ ncalls = 3
    /\ policy = "Anonymize"
    /\ src = TextTwoSsn
    /\ Args = first.args
    /\ Len(map) = 2
    /\ type_counters # NewTypeCounters

\* Two spans share a byte.
Overlap(a, b) == a[2] < b[3] /\ b[2] < a[3]

NonOverlapping ==
    \A i \in 1..Len(collected) : \A j \in 1..Len(collected) :
        i # j => ~Overlap(collected[i], collected[j])

RECURSIVE Pieces(_)
\* The input text from the start of span k on, with each of the spans 1..k
\* replaced by the replacement of its record.
Pieces(k) ==
    IF k = 0 THEN <<>>
    ELSE map[k][3]
           \o SubSeq(src, spans[k][3] + 1, IF k = 1 THEN Len(src) ELSE spans[k - 1][2])
           \o Pieces(k - 1)

\* The input text with each of the spans 1..k replaced.
Spliced(k) == IF k = 0 THEN src ELSE SubSeq(src, 1, spans[k][2]) \o Pieces(k)

\* C10: when no two collected spans overlap, the descending order keeps the
\* offsets of the spans still to process valid: the working text up to the
\* end of the next span is the input text up to there, the original of each
\* record is the input text at [start, end), and the working text is the
\* input text with the processed spans replaced and nothing else changed.
C10_OffsetStability ==
    (Running /\ NonOverlapping) =>
        /\ pc # "panicked"
        /\ si < Len(spans) =>
               SubSeq(redacted, 1, spans[si + 1][3]) = SubSeq(src, 1, spans[si + 1][3])
        /\ \A k \in 1..Len(map) :
               map[k][2] = SubSeq(src, spans[k][2] + 1, spans[k][3])
        /\ redacted = Spliced(Len(map))

C10_Witness ==
    /\ pc = "done"
    /\ NonOverlapping
    /\ src = TextMixed
    /\ policy = "Hash"
    /\ fields = <<IdEmail, IdSsn>>
    /\ Len(map) = 2
    /\ Len(redacted) # Len(src)

=============================================================================
